---- MODULE Spec2Model ----
(***************************************************************************)
(* Model of the Sudoku solver: cells, blocks and the board of              *)
(* src/sudoku/{cell,block,board}.py and the search driver solve_board of   *)
(* src/solver.py.                                                          *)
(*                                                                         *)
(* A board object is a record [id, blocks]: id stands for the identity of  *)
(* the Python object (and of the block and cell objects it owns), blocks   *)
(* is the 9 x 9 array blocks[b][c] of cells.  A cell is a record           *)
(* [number, possibles]; number None is the empty cell, possibles is the    *)
(* sorted candidate list or NoList for the Python value None.              *)
(***************************************************************************)
EXTENDS Integers, Sequences, FiniteSets, TLC

VARIABLES stack, visited, count, result, nextId, exc, entries, budgetFired, orig

vars == <<stack, visited, count, result, nextId, exc, entries, budgetFired, orig>>

----------------------------------------------------------------------------
(* cell.py *)

None == 0

NoList == <<0>>

POSSIBLE_NUMBERS == <<1, 2, 3, 4, 5, 6, 7, 8, 9>>

POSSIBLE_SET == {POSSIBLE_NUMBERS[i] : i \in DOMAIN POSSIBLE_NUMBERS}

Idx == 0 .. 8

SeqSet(s) == {s[i] : i \in DOMAIN s}

\* sorted(list(S)) for a set S of cell numbers
Sorted(S) == SelectSeq(POSSIBLE_NUMBERS, LAMBDA x : x \in S)

\* SudokuCell.__init__: an empty cell holding every candidate
SudokuCell == [number |-> None, possibles |-> POSSIBLE_NUMBERS]

\* eliminate_possibles with "^" for "-": the impossibles a cell had lost come back
eliminate_possibles_xor(possibles, impossibles) ==
    Sorted((SeqSet(possibles) \ impossibles) \cup (impossibles \ SeqSet(possibles)))

\* SudokuCell.eliminate_possibles
eliminate_possibles(possibles, impossibles) ==
    Sorted(SeqSet(possibles) \ impossibles)

\* SudokuCell.empty
empty(cell) == cell.number = None

----------------------------------------------------------------------------
(* block.py, board.py: addressing *)

\* the cells of block b, in cell-index order
BlockUnit(b) == [k \in 1 .. 9 |-> <<b, k - 1>>]

\* SudokuBoard.row(as_numbers=False): blocks (r/3)*3 + i, sub-row r%3 of each
RowUnit(r) ==
    [k \in 1 .. 9 |-> <<(r \div 3) * 3 + ((k - 1) \div 3), (r % 3) * 3 + ((k - 1) % 3)>>]

\* SudokuBoard.col(as_numbers=False): blocks c/3 + 3*i, sub-column c%3 of each
ColUnit(n) ==
    [k \in 1 .. 9 |-> <<(n \div 3) + 3 * ((k - 1) \div 3), (n % 3) + 3 * ((k - 1) % 3)>>]

\* the scan order of verify and set_possibles: blocks, then rows, then columns
Units ==
    [k \in 1 .. 27 |->
        IF k <= 9 THEN BlockUnit(k - 1)
        ELSE IF k <= 18 THEN RowUnit(k - 10) ELSE ColUnit(k - 19)]

At(blocks, p) == blocks[p[1]][p[2]]

\* the numbers of the filled cells of a unit, in unit order
UnitNumbers(blocks, unit) ==
    LET all == [k \in 1 .. 9 |-> At(blocks, unit[k]).number]
    IN  SelectSeq(all, LAMBDA x : x # None)

\* SudokuBlock.empty_cells / SudokuBoard.filled
EmptyCells(blocks) == {p \in Idx \X Idx : empty(At(blocks, p))}

filled(blocks) == \A b \in Idx : \A c \in Idx : ~empty(blocks[b][c])

----------------------------------------------------------------------------
(* SudokuBoard.populate and SudokuBlock.populate: the board built from rows *)

\* SudokuBlock.populate keeps the candidate list the constructor gave
populate(rows) ==
    [b \in Idx |-> [c \in Idx |->
        [number |-> rows[(b \div 3) * 3 + (c \div 3) + 1][(b % 3) * 3 + (c % 3) + 1],
         possibles |-> SudokuCell.possibles]]]

----------------------------------------------------------------------------
(* SudokuBlock.reset_possibles / SudokuBoard.reset_possibles *)

reset_possibles(blocks) ==
    [b \in Idx |-> [c \in Idx |->
        IF empty(blocks[b][c])
        THEN [blocks[b][c] EXCEPT !.possibles = POSSIBLE_NUMBERS]
        ELSE [blocks[b][c] EXCEPT !.possibles = NoList]]]

----------------------------------------------------------------------------
(* SudokuBoard.set_possibles *)

\* one unit of the first three loops: the unit's numbers leave the candidates
\* of its empty cells
EliminateIn(blocks, unit) ==
    LET values_set == SeqSet(UnitNumbers(blocks, unit))
        cells == SeqSet(unit)
    IN  [b \in Idx |-> [c \in Idx |->
            IF <<b, c>> \in cells /\ empty(blocks[b][c])
            THEN [blocks[b][c] EXCEPT
                    !.possibles = eliminate_possibles(blocks[b][c].possibles, values_set)]
            ELSE blocks[b][c]]]

RECURSIVE EliminateAll(_, _)
EliminateAll(blocks, k) ==
    IF k > 27 THEN blocks ELSE EliminateAll(EliminateIn(blocks, Units[k]), k + 1)

\* the cells of a unit, in unit order, and a board with them put back
UnitCells(blocks, unit) == [k \in 1 .. 9 |-> At(blocks, unit[k])]

WithUnitCells(blocks, unit, cells) ==
    [b \in Idx |-> [c \in Idx |->
        IF \E k \in 1 .. 9 : unit[k] = <<b, c>>
        THEN cells[CHOOSE k \in 1 .. 9 : unit[k] = <<b, c>>]
        ELSE blocks[b][c]]]

\* possibles_count of one unit: the keys, and the count of each
CounterKeys(cells) ==
    {cells[k].possibles : k \in {j \in 1 .. 9 : empty(cells[j])}}

CounterCount(cells, key) ==
    Cardinality({k \in 1 .. 9 : empty(cells[k]) /\ cells[k].possibles = key})

\* the keys that pass "len(possibles) >= cnt"
LockedKeys_loose(cells) ==
    {key \in CounterKeys(cells) : Len(key) >= CounterCount(cells, key)}

\* the keys that pass "len(possibles) == cnt"
LockedKeys(cells) ==
    {key \in CounterKeys(cells) : Len(key) = CounterCount(cells, key)}

\* the inner loop without its test "list(possibles) != cell.possibles"
ApplyKey_all(cells, key) ==
    [k \in 1 .. 9 |->
        IF empty(cells[k])
        THEN [cells[k] EXCEPT
                !.possibles = eliminate_possibles(cells[k].possibles, SeqSet(key))]
        ELSE cells[k]]

\* the inner loop for one key: every other empty cell of the unit loses it
ApplyKey(cells, key) ==
    [k \in 1 .. 9 |->
        IF empty(cells[k]) /\ key # cells[k].possibles
        THEN [cells[k] EXCEPT
                !.possibles = eliminate_possibles(cells[k].possibles, SeqSet(key))]
        ELSE cells[k]]

\* iteritems() visits the keys in the dictionary's order, which the hash table
\* decides: every order of the keys that act is an outcome.  todo is a set of
\* pairs <<cells, keys still to visit>>.
RECURSIVE KeyOrders(_)
KeyOrders(todo) ==
    IF \A x \in todo : x[2] = {} THEN {x[1] : x \in todo}
    ELSE KeyOrders(UNION {{<<ApplyKey(x[1], key), x[2] \ {key}>> : key \in x[2]} : x \in todo})

\* one unit of the last three loops
NakedIn(blocks, unit) ==
    LET cells == UnitCells(blocks, unit)
    IN  {WithUnitCells(blocks, unit, after) : after \in KeyOrders({<<cells, LockedKeys(cells)>>})}

RECURSIVE NakedAll(_, _)
NakedAll(boards, k) ==
    IF k > 27 THEN boards
    ELSE NakedAll(UNION {NakedIn(x, Units[k]) : x \in boards}, k + 1)

\* the boards set_possibles can leave
set_possibles(blocks) == NakedAll({EliminateAll(blocks, 1)}, 1)

----------------------------------------------------------------------------
(* SudokuBoard.verify *)

\* "len(values) and len(values) != len(set(values))"
Duplicated(blocks, unit) ==
    LET values == UnitNumbers(blocks, unit)
    IN  Len(values) # 0 /\ Len(values) # Cardinality(SeqSet(values))

Least(S) == CHOOSE x \in S : \A y \in S : x <= y

Numbers(blocks) == [b \in Idx |-> [c \in Idx |-> blocks[b][c].number]]

\* verify that never raises
verify_silent(blocks) == [kind |-> "none", index |-> 0, board |-> Numbers(blocks)]

\* what verify raises: the unit kind and the index its message is formatted
\* with, and the board the message prints; kind "none" when it returns.
\* The row and column messages are formatted with i, the variable of the
\* block loop, which that loop left at its last value.
verify(blocks) ==
    LET badBlocks == {i \in Idx : Duplicated(blocks, BlockUnit(i))}
        badRows == {row_num \in Idx : Duplicated(blocks, RowUnit(row_num))}
        badCols == {col_num \in Idx : Duplicated(blocks, ColUnit(col_num))}
        i == 8
    IN  IF badBlocks # {}
        THEN [kind |-> "Block", index |-> Least(badBlocks), board |-> Numbers(blocks)]
        ELSE IF badRows # {}
        THEN [kind |-> "Row", index |-> i, board |-> Numbers(blocks)]
        ELSE IF badCols # {}
        THEN [kind |-> "Column", index |-> i, board |-> Numbers(blocks)]
        ELSE [kind |-> "none", index |-> 0, board |-> Numbers(blocks)]

\* verify raised InvalidBoard
InvalidBoard(blocks) == verify(blocks).kind # "none"

----------------------------------------------------------------------------
(* SudokuBoard.set_obvious, solved, next_moves, __eq__ *)

\* set_obvious that never reports a committed cell
cells_set_never(blocks) == FALSE

\* set_obvious that always reports a committed cell
cells_set_always(blocks) == TRUE

\* the return value cells_set
cells_set(blocks) ==
    \E p \in EmptyCells(blocks) : Len(At(blocks, p).possibles) = 1

\* set_obvious that also resets the candidates of the cells it leaves empty
set_obvious_reset(blocks) ==
    [b \in Idx |-> [c \in Idx |->
        IF empty(blocks[b][c]) /\ Len(blocks[b][c].possibles) = 1
        THEN [number |-> blocks[b][c].possibles[1], possibles |-> NoList]
        ELSE IF empty(blocks[b][c])
        THEN [blocks[b][c] EXCEPT !.possibles = POSSIBLE_NUMBERS]
        ELSE blocks[b][c]]]

set_obvious(blocks) ==
    [b \in Idx |-> [c \in Idx |->
        IF empty(blocks[b][c]) /\ Len(blocks[b][c].possibles) = 1
        THEN [number |-> blocks[b][c].possibles[1], possibles |-> NoList]
        ELSE blocks[b][c]]]

solved(blocks) == filled(blocks) /\ ~InvalidBoard(blocks)

\* the moves the generator next_moves yields, in its order: for every empty
\* cell in block-then-cell order, one move per value of its candidate list
RECURSIVE MovesFrom(_, _)
MovesFrom(blocks, p) ==
    IF p > 80 THEN <<>>
    ELSE LET block_num == p \div 9
             cell_num == p % 9
             cell == blocks[block_num][cell_num]
             here == IF empty(cell)
                     THEN [k \in 1 .. Len(cell.possibles) |->
                              <<block_num, cell_num, cell.possibles[k]>>]
                     ELSE <<>>
         IN  here \o MovesFrom(blocks, p + 1)

\* next_moves that stops after the first empty cell
next_moves_first(blocks) ==
    IF EmptyCells(blocks) = {} THEN <<>>
    ELSE LET first == CHOOSE p \in EmptyCells(blocks) :
                         \A q \in EmptyCells(blocks) : 9 * p[1] + p[2] <= 9 * q[1] + q[2]
         IN  [k \in 1 .. Len(At(blocks, first).possibles) |->
                <<first[1], first[2], At(blocks, first).possibles[k]>>]

next_moves(blocks) == MovesFrom(blocks, 0)

\* the board a move yields: a deep copy (a new object) with one number set
board_copy(board, move, id) ==
    [id |-> id,
     blocks |-> [board.blocks EXCEPT ![move[1]][move[2]].number = move[3]]]

\* SudokuBlock defines neither __eq__ nor __ne__: "!=" on two blocks is the
\* default comparison of objects, by identity
block_ne(x, y) == x # y

\* SudokuBoard.__eq__
board_eq(self, other) ==
    \A block_num \in Idx :
        ~block_ne(<<other.id, block_num>>, <<self.id, block_num>>)

\* SudokuBoard defines no __hash__: the hash of a board is that of its identity
board_hash(board) == board.id

\* "board in visited" on a set: an entry with the same hash that is the same
\* object or compares equal
in_visited(board, vis) ==
    \E v \in vis : board_hash(v) = board_hash(board) /\ (v.id = board.id \/ board_eq(v, board))

----------------------------------------------------------------------------------------------------------------------------------------
(* The inputs: the driver's boards *)

\* boards_to_solve[0] .. [3] of solver.py, by rows; 0 is an empty cell
Board1 ==
    << <<2, 0, 3, 0, 0, 4, 0, 7, 0>>,
       <<1, 9, 0, 7, 3, 0, 8, 0, 0>>,
       <<0, 7, 0, 0, 2, 0, 9, 4, 3>>,
       <<9, 6, 0, 0, 0, 0, 0, 0, 8>>,
       <<0, 0, 2, 0, 0, 0, 5, 0, 0>>,
       <<8, 0, 0, 0, 0, 0, 0, 2, 1>>,
       <<5, 3, 9, 0, 4, 0, 0, 1, 0>>,
       <<0, 0, 8, 0, 1, 7, 0, 5, 9>>,
       <<0, 1, 0, 3, 0, 0, 2, 0, 4>> >>

Board2 ==
    << <<5, 0, 0, 0, 4, 0, 0, 0, 7>>,
       <<0, 0, 6, 0, 0, 5, 0, 0, 4>>,
       <<2, 0, 0, 0, 1, 0, 6, 9, 5>>,
       <<0, 0, 8, 0, 0, 0, 0, 6, 0>>,
       <<0, 6, 0, 0, 7, 0, 0, 1, 0>>,
       <<0, 9, 0, 0, 0, 0, 5, 0, 0>>,
       <<8, 7, 3, 0, 5, 0, 0, 0, 9>>,
       <<6, 0, 0, 9, 0, 0, 7, 0, 0>>,
       <<1, 0, 0, 0, 3, 0, 0, 0, 6>> >>

Board3 ==
    << <<5, 0, 0, 0, 0, 9, 1, 0, 8>>,
       <<0, 0, 0, 0, 0, 8, 0, 0, 7>>,
       <<0, 0, 8, 2, 0, 0, 0, 5, 6>>,
       <<0, 0, 0, 0, 0, 3, 0, 2, 0>>,
       <<3, 0, 0, 0, 0, 0, 0, 0, 1>>,
       <<0, 2, 0, 1, 0, 0, 0, 0, 0>>,
       <<9, 4, 0, 0, 0, 1, 8, 0, 0>>,
       <<2, 0, 0, 6, 0, 0, 0, 0, 0>>,
       <<1, 0, 5, 3, 0, 0, 0, 0, 4>> >>

Board4 ==
    << <<0, 0, 0, 0, 5, 0, 4, 2, 0>>,
       <<0, 0, 0, 6, 0, 0, 0, 0, 0>>,
       <<9, 1, 0, 3, 0, 7, 0, 0, 0>>,
       <<0, 0, 7, 1, 0, 0, 0, 0, 5>>,
       <<0, 8, 0, 0, 0, 0, 0, 9, 0>>,
       <<6, 0, 0, 0, 0, 2, 3, 0, 0>>,
       <<0, 0, 0, 5, 0, 9, 0, 7, 1>>,
       <<0, 0, 0, 0, 0, 6, 0, 0, 0>>,
       <<0, 6, 5, 0, 3, 0, 0, 0, 0>> >>

\* brd_nums[0] (a board with duplicates) and brd_nums[2] of test_board.py
TestBoard0 ==
    << <<5, 1, 9, 6, 4, 3, 0, 0, 7>>,
       <<7, 3, 6, 0, 0, 5, 0, 0, 4>>,
       <<2, 8, 4, 0, 1, 0, 6, 9, 5>>,
       <<0, 0, 8, 0, 0, 0, 0, 6, 0>>,
       <<0, 6, 0, 0, 7, 0, 0, 1, 0>>,
       <<0, 9, 0, 0, 0, 0, 5, 0, 0>>,
       <<8, 7, 3, 0, 5, 0, 0, 0, 9>>,
       <<6, 0, 0, 9, 0, 0, 7, 0, 0>>,
       <<1, 0, 0, 0, 3, 0, 0, 0, 6>> >>

TestBoard2 ==
    << <<0, 0, 0, 0, 0, 0, 1, 7, 5>>,
       <<0, 9, 0, 7, 3, 5, 8, 6, 2>>,
       <<0, 0, 0, 8, 2, 1, 9, 4, 3>>,
       <<9, 6, 0, 5, 7, 2, 4, 3, 8>>,
       <<3, 4, 2, 1, 8, 6, 5, 9, 7>>,
       <<8, 5, 7, 4, 9, 3, 6, 2, 1>>,
       <<5, 3, 9, 2, 4, 8, 7, 1, 6>>,
       <<0, 2, 8, 6, 1, 7, 3, 5, 9>>,
       <<7, 1, 6, 3, 5, 9, 2, 8, 4>> >>

\* Board1 completed: the grid the edited inputs start from
Solution ==
    << <<2, 8, 3, 9, 6, 4, 1, 7, 5>>,
       <<1, 9, 4, 7, 3, 5, 8, 6, 2>>,
       <<6, 7, 5, 8, 2, 1, 9, 4, 3>>,
       <<9, 6, 1, 5, 7, 2, 4, 3, 8>>,
       <<3, 4, 2, 1, 8, 6, 5, 9, 7>>,
       <<8, 5, 7, 4, 9, 3, 6, 2, 1>>,
       <<5, 3, 9, 2, 4, 8, 7, 1, 6>>,
       <<4, 2, 8, 6, 1, 7, 3, 5, 9>>,
       <<7, 1, 6, 3, 5, 9, 2, 8, 4>> >>

\* how many cells an input leaves empty, and how many it overwrites, beyond
\* its base board
MaxHoles == 6

MaxWrong == 2

\* the call budget of solver.py, scaled down with the inputs
MAX_CALLS == 24

\* the grids on which every removed candidate is tried: those with no more
\* empty cells than this
MaxOpen == 8

\* a board with some cells (row, column, from 1) emptied and some overwritten
Edit(base, holes, wrong) ==
    [r \in 1 .. 9 |-> [c \in 1 .. 9 |->
        IF <<r, c>> \in holes THEN None
        ELSE IF \E w \in wrong : w[1] = r /\ w[2] = c
        THEN (CHOOSE w \in wrong : w[1] = r /\ w[2] = c)[3]
        ELSE base[r][c]]]

\* Two cells, (1,1) and (8,8), that keep two candidates each while the empty
\* cells beside them have none: (6,2) and (7,5) hold the number their
\* neighbours (6,1) and (8,5) had, so no number fits (1,2), (6,1), (7,8), (8,5).
PairHoles == {<<1, 1>>, <<1, 2>>, <<6, 1>>, <<8, 8>>, <<7, 8>>, <<8, 5>>}

PairWrong == {<<6, 2, 8>>, <<7, 5, 1>>}

\* cells whose candidates one propagation pass does not settle
ChainHoles == {<<1, 2>>, <<1, 3>>, <<5, 3>>, <<7, 2>>, <<8, 2>>, <<8, 3>>}

\* a rectangle of two numbers, 9 3 over 3 9, that fits both ways round
RectHoles == {<<3, 7>>, <<3, 9>>, <<8, 7>>, <<8, 9>>}

\* a column, the eighth, whose empty cells are left with the candidates
\* [3], [5] and [3, 5]: three cells for two numbers
NakedHoles == {<<3, 7>>, <<4, 8>>, <<5, 8>>, <<8, 7>>, <<8, 8>>}

NakedWrong == {<<5, 7, 9>>}

\* the fourth board without its 6 in the last row: a board with completions
\* whose search outlasts the call budget
HardHoles == {<<9, 2>>}

Scenarios ==
    {[base |-> Solution, holes |-> PairHoles, wrong |-> PairWrong],
     [base |-> Board4, holes |-> HardHoles, wrong |-> {}],
     [base |-> Solution, holes |-> NakedHoles, wrong |-> NakedWrong],
     [base |-> Solution, holes |-> ChainHoles, wrong |-> {}],
     [base |-> Solution, holes |-> RectHoles, wrong |-> {}],
     [base |-> Edit(Solution, PairHoles, PairWrong), holes |-> RectHoles, wrong |-> {}],
     [base |-> Board1, holes |-> {}, wrong |-> {}],
     [base |-> Board2, holes |-> {}, wrong |-> {}],
     [base |-> Board3, holes |-> {}, wrong |-> {}],
     [base |-> Board4, holes |-> {}, wrong |-> {}],
     [base |-> TestBoard0, holes |-> {}, wrong |-> {}],
     [base |-> TestBoard2, holes |-> {}, wrong |-> {}]}

Inputs ==
    UNION {{Edit(s.base, h, w) :
                h \in {x \in SUBSET s.holes : Cardinality(x) <= MaxHoles},
                w \in {x \in SUBSET s.wrong : Cardinality(x) <= MaxWrong}} :
           s \in Scenarios}

----------------
(* solve_board: the recursion as a stack of frames *)

Frame(board) == [board |-> board, pc |-> "entry", mv |-> 1, loops |-> 0, start |-> 0]

Top == stack[Len(stack)]

\* the top frame's board sharing its blocks with the caller's board, as a
\* copy that is not deep would
SetTop_shared(f) ==
    IF Len(stack) > 1
    THEN [stack EXCEPT ![Len(stack)] = f, ![Len(stack) - 1].board.blocks = f.board.blocks]
    ELSE [stack EXCEPT ![Len(stack)] = f]

SetTop(f) == [stack EXCEPT ![Len(stack)] = f]

Running == Len(stack) > 0

\* the driver: solve_board(copy.deepcopy(board), False, set(), 0)
Init ==
    /\ \E rows \in Inputs :
          /\ orig = populate(rows)
          /\ stack = <<Frame([id |-> 1, blocks |-> populate(rows)])>>
    /\ visited = {}
    /\ count = 0
    /\ result = [done |-> FALSE, solved |-> FALSE, board |-> {}, count |-> 0]
    /\ nextId = 2
    /\ exc = [kind |-> "none", index |-> 0, board |-> Numbers(orig)]
    /\ entries = 0
    /\ budgetFired = FALSE

\* "return None, False, visited, c" of the top frame: the caller goes on with
\* its loop, or the driver has the result
ReturnFailure(c) ==
    /\ count' = c
    /\ stack' = SubSeq(stack, 1, Len(stack) - 1)
    /\ result' = IF Len(stack) = 1
                 THEN [done |-> TRUE, solved |-> FALSE, board |-> {}, count |-> c]
                 ELSE result

\* "return board, True, visited, c": every caller returns the same values
ReturnSuccess(board, c) ==
    /\ count' = c
    /\ stack' = <<>>
    /\ result' = [done |-> TRUE, solved |-> TRUE, board |-> {board}, count |-> c]

\* lines 84-92: the budget check, the solved flag (False in every call of the
\* program) and the visited test
Enter ==
    /\ Running /\ Top.pc = "entry"
    /\ UNCHANGED <<visited, nextId, exc, orig>>
    /\ IF count >= MAX_CALLS
       THEN /\ ReturnFailure(count)
            /\ budgetFired' = TRUE
            /\ entries' = entries + 1
       ELSE IF in_visited(Top.board, visited)
       THEN /\ ReturnFailure(count)
            /\ UNCHANGED <<budgetFired, entries>>
       ELSE /\ stack' = SetTop([Top EXCEPT !.pc = "verify",
                                          !.start = Cardinality(EmptyCells(Top.board.blocks))])
            /\ entries' = entries + 1
            /\ UNCHANGED <<count, result, budgetFired>>

\* analyze, lines 328 and 338: verify; InvalidBoard ends solve_board at line 99
Verify ==
    /\ Running /\ Top.pc \in {"verify", "loop_verify"}
    /\ UNCHANGED <<visited, nextId, entries, budgetFired, orig>>
    /\ IF InvalidBoard(Top.board.blocks)
       THEN /\ exc' = verify(Top.board.blocks)
            /\ ReturnFailure(count + 1)
       ELSE /\ stack' = SetTop([Top EXCEPT !.pc = "reset"])
            /\ UNCHANGED <<count, result, exc>>

\* analyze, lines 331 and 339
ResetPossibles ==
    /\ Running /\ Top.pc = "reset"
    /\ stack' = SetTop([Top EXCEPT !.pc = "set_possibles",
                                   !.board.blocks = reset_possibles(Top.board.blocks)])
    /\ UNCHANGED <<visited, count, result, nextId, exc, entries, budgetFired, orig>>

\* analyze, lines 334 and 340
SetPossibles ==
    /\ Running /\ Top.pc = "set_possibles"
    /\ \E blocks \in set_possibles(Top.board.blocks) :
          stack' = SetTop([Top EXCEPT !.pc = "set_obvious", !.board.blocks = blocks])
    /\ UNCHANGED <<visited, count, result, nextId, exc, entries, budgetFired, orig>>

\* analyze, line 337: the loop test
SetObvious ==
    /\ Running /\ Top.pc = "set_obvious"
    /\ stack' = SetTop([Top EXCEPT
            !.pc = IF cells_set(Top.board.blocks) THEN "loop_verify" ELSE "solved",
            !.loops = IF cells_set(Top.board.blocks) THEN @ + 1 ELSE @,
            !.board.blocks = set_obvious(Top.board.blocks)])
    /\ UNCHANGED <<visited, count, result, nextId, exc, entries, budgetFired, orig>>

\* line 100
CheckSolved ==
    /\ Running /\ Top.pc = "solved"
    /\ UNCHANGED <<visited, nextId, exc, entries, budgetFired, orig>>
    /\ IF solved(Top.board.blocks)
       THEN ReturnSuccess(Top.board, count + 1)
       ELSE /\ stack' = SetTop([Top EXCEPT !.pc = "moves"])
            /\ UNCHANGED <<count, result>>

\* lines 102-105: the generator yields the next board and solve_board is
\* called on it with count + 1
TryMove ==
    /\ Running /\ Top.pc = "moves"
    /\ Top.mv <= Len(next_moves(Top.board.blocks))
    /\ stack' = Append(SetTop([Top EXCEPT !.mv = @ + 1]),
                       Frame(board_copy(Top.board, next_moves(Top.board.blocks)[Top.mv], nextId)))
    /\ nextId' = nextId + 1
    /\ count' = count + 1
    /\ UNCHANGED <<visited, result, exc, entries, budgetFired, orig>>

\* lines 111-117: the generator is exhausted
DeadEnd ==
    /\ Running /\ Top.pc = "moves"
    /\ Top.mv > Len(next_moves(Top.board.blocks))
    /\ visited' = visited \cup {Top.board}
    /\ ReturnFailure(count + 1)
    /\ UNCHANGED <<nextId, exc, entries, budgetFired, orig>>

Next ==
    \/ Enter
    \/ Verify
    \/ ResetPossibles
    \/ SetPossibles
    \/ SetObvious
    \/ CheckSolved
    \/ TryMove
    \/ DeadEnd

Spec == Init /\ [][Next]_vars

----------------------------------------------------------------------------
(* The start of analyze followed by a second call of set_possibles, as    *)
(* test_set_possibles calls reset_possibles and set_possibles on a board  *)

InitPropagate ==
    /\ \E rows \in Inputs :
          /\ orig = populate(rows)
          /\ stack = <<[Frame([id |-> 1, blocks |-> populate(rows)]) EXCEPT !.pc = "p_verify"]>>
    /\ visited = {}
    /\ count = 0
    /\ result = [done |-> FALSE, solved |-> FALSE, board |-> {}, count |-> 0]
    /\ nextId = 2
    /\ exc = [kind |-> "none", index |-> 0, board |-> Numbers(orig)]
    /\ entries = 0
    /\ budgetFired = FALSE

\* verify: InvalidBoard ends the run
PVerify ==
    /\ Running /\ Top.pc = "p_verify"
    /\ IF InvalidBoard(Top.board.blocks)
       THEN /\ exc' = verify(Top.board.blocks)
            /\ stack' = <<>>
       ELSE /\ stack' = SetTop([Top EXCEPT !.pc = "p_reset"])
            /\ UNCHANGED exc
    /\ UNCHANGED <<visited, count, result, nextId, entries, budgetFired, orig>>

PReset ==
    /\ Running /\ Top.pc = "p_reset"
    /\ stack' = SetTop([Top EXCEPT !.pc = "p_first",
                                   !.board.blocks = reset_possibles(Top.board.blocks)])
    /\ UNCHANGED <<visited, count, result, nextId, exc, entries, budgetFired, orig>>

PFirst ==
    /\ Running /\ Top.pc = "p_first"
    /\ \E blocks \in set_possibles(Top.board.blocks) :
          stack' = SetTop([Top EXCEPT !.pc = "p_second", !.board.blocks = blocks])
    /\ UNCHANGED <<visited, count, result, nextId, exc, entries, budgetFired, orig>>

PSecond ==
    /\ Running /\ Top.pc = "p_second"
    /\ \E blocks \in set_possibles(Top.board.blocks) :
          stack' = SetTop([Top EXCEPT !.pc = "p_end", !.board.blocks = blocks])
    /\ UNCHANGED <<visited, count, result, nextId, exc, entries, budgetFired, orig>>

NextPropagate ==
    \/ PVerify
    \/ PReset
    \/ PFirst
    \/ PSecond

SpecPropagate == InitPropagate /\ [][NextPropagate]_vars

----------------------------------------------------------------------------
(* solve_board as a function of its arguments: a caller that passes a     *)
(* count other than 0, or a visited set that holds another board object   *)
(* with the same numbers                                                   *)

InitCall ==
    /\ \E rows \in Inputs :
          /\ orig = populate(rows)
          /\ stack = <<Frame([id |-> 1, blocks |-> populate(rows)])>>
          /\ visited \in {{}, {[id |-> 0, blocks |-> populate(rows)]}}
    /\ count \in {0, MAX_CALLS - 1, MAX_CALLS}
    /\ result = [done |-> FALSE, solved |-> FALSE, board |-> {}, count |-> 0]
    /\ nextId = 2
    /\ exc = [kind |-> "none", index |-> 0, board |-> Numbers(orig)]
    /\ entries = 0
    /\ budgetFired = FALSE

SpecCall == InitCall /\ [][Next]_vars

----------------------------------------------------------------------------
(* set_possibles one unit at a time: verify and reset_possibles as analyze *)
(* calls them, the three elimination loops, then the naked-subset loops    *)
(* unit by unit.  before is the board as the last unit found it.           *)

InitNaked ==
    /\ \E rows \in Inputs :
          /\ orig = populate(rows)
          /\ stack = <<[board |-> [id |-> 1, blocks |-> populate(rows)],
                        pc |-> "n_verify", unit |-> 1, before |-> populate(rows)]>>
    /\ visited = {}
    /\ count = 0
    /\ result = [done |-> FALSE, solved |-> FALSE, board |-> {}, count |-> 0]
    /\ nextId = 2
    /\ exc = [kind |-> "none", index |-> 0, board |-> Numbers(orig)]
    /\ entries = 0
    /\ budgetFired = FALSE

NVerify ==
    /\ Running /\ Top.pc = "n_verify"
    /\ IF InvalidBoard(Top.board.blocks)
       THEN /\ exc' = verify(Top.board.blocks)
            /\ stack' = <<>>
       ELSE /\ stack' = SetTop([Top EXCEPT !.pc = "n_reset"])
            /\ UNCHANGED exc
    /\ UNCHANGED <<visited, count, result, nextId, entries, budgetFired, orig>>

NReset ==
    /\ Running /\ Top.pc = "n_reset"
    /\ stack' = SetTop([Top EXCEPT !.pc = "n_eliminate",
                                   !.board.blocks = reset_possibles(Top.board.blocks)])
    /\ UNCHANGED <<visited, count, result, nextId, exc, entries, budgetFired, orig>>

NEliminate ==
    /\ Running /\ Top.pc = "n_eliminate"
    /\ stack' = SetTop([Top EXCEPT !.pc = "n_naked",
                                   !.board.blocks = EliminateAll(Top.board.blocks, 1)])
    /\ UNCHANGED <<visited, count, result, nextId, exc, entries, budgetFired, orig>>

NUnit ==
    /\ Running /\ Top.pc = "n_naked"
    /\ \E blocks \in NakedIn(Top.board.blocks, Units[Top.unit]) :
          stack' = SetTop([Top EXCEPT !.pc = IF Top.unit = 27 THEN "n_end" ELSE "n_naked",
                                     !.unit = Top.unit + 1,
                                     !.before = Top.board.blocks,
                                     !.board.blocks = blocks])
    /\ UNCHANGED <<visited, count, result, nextId, exc, entries, budgetFired, orig>>

NextNaked ==
    \/ NVerify
    \/ NReset
    \/ NEliminate
    \/ NUnit

SpecNaked == InitNaked /\ [][NextNaked]_vars

----------------------------------------------------------------------------
(* Properties *)

Cells == Idx \X Idx

\* block-then-cell order
Before(p, q) == 9 * p[1] + p[2] < 9 * q[1] + q[2]

FirstEmpty(blocks) ==
    CHOOSE p \in EmptyCells(blocks) : \A q \in EmptyCells(blocks) : p = q \/ Before(p, q)

\* the board with one more number
WithNumber(blocks, p, v) == [blocks EXCEPT ![p[1]][p[2]].number = v]

\* how many (cell, candidate) pairs come before cell p
PairsBefore(blocks, p) ==
    Cardinality({x \in Cells \X (1 .. 9) :
        /\ empty(At(blocks, x[1])) /\ Before(x[1], p)
        /\ x[2] <= Len(At(blocks, x[1]).possibles)})

PairsTotal(blocks) ==
    Cardinality({x \in Cells \X (1 .. 9) :
        empty(At(blocks, x[1])) /\ x[2] <= Len(At(blocks, x[1]).possibles)})

\* a unit holds every number once
Complete(blocks, unit) == {At(blocks, unit[k]).number : k \in 1 .. 9} = POSSIBLE_SET

\* C1: when solve_board returns success the returned grid is filled, every
\* block, row and column holds each number once, and every cell the input
\* had filled keeps its number.
Thm_C1 ==
    (result.done /\ result.solved) =>
        /\ result.board # {}
        /\ \A b \in result.board :
              /\ \A k \in 1 .. 27 : Complete(b.blocks, Units[k])
              /\ \A p \in Cells :
                    ~empty(At(orig, p)) => At(b.blocks, p).number = At(orig, p).number

\* a success that took a search, on an input with empty cells
Wit_C1 == result.done /\ result.solved /\ entries > 1 /\ EmptyCells(orig) # {}

\* the n-th board next_moves yields from parent
IsYield(parent, child, n) ==
    \E p \in EmptyCells(parent) :
        \E i \in 1 .. Len(At(parent, p).possibles) :
            /\ child = WithNumber(parent, p, At(parent, p).possibles[i])
            /\ n = PairsBefore(parent, p) + i

\* C2 (as amended): next_moves yields, for every empty cell in
\* block-then-cell order and not only the first, one grid per value of the
\* cell's candidate list, each the source grid with that one cell set; when
\* it is exhausted it has yielded one grid per candidate of every empty cell.
Thm_C2 ==
    /\ [](\A k \in 2 .. Len(stack) :
            stack[k].pc = "entry" =>
                IsYield(stack[k - 1].board.blocks, stack[k].board.blocks, stack[k - 1].mv - 1))
    /\ [][visited' # visited => Top.mv - 1 = PairsTotal(Top.board.blocks)]_vars

\* C2 (as claimed): every yielded grid sets the first empty cell of the source
CX_C2 ==
    \A k \in 2 .. Len(stack) :
        stack[k].pc = "entry" =>
            LET parent == stack[k - 1].board.blocks
            IN  \E v \in SeqSet(At(parent, FirstEmpty(parent)).possibles) :
                    stack[k].board.blocks = WithNumber(parent, FirstEmpty(parent), v)

\* a yielded grid that sets a later empty cell
Wit_C2 ==
    \E k \in 2 .. Len(stack) :
        /\ stack[k].pc = "entry"
        /\ empty(At(stack[k].board.blocks, FirstEmpty(stack[k - 1].board.blocks)))

\* C3: a grid value-equal to a grid of the visited set is not analysed
CX_C3 ==
    \A k \in 1 .. Len(stack) :
        stack[k].pc = "verify" =>
            ~ \E v \in visited : Numbers(v.blocks) = Numbers(stack[k].board.blocks)

\* C4: the returned count is the number of entries into solve_board
CX_C4 == result.done => result.count = entries

\* C5: a failed search returns count >= MAX_CALLS exactly when the budget
\* check fired
CX_C5 ==
    (result.done /\ ~result.solved) => ((result.count >= MAX_CALLS) <=> budgetFired)

\* a repeated number among the cells of a unit
Repeats(numbers, unit) ==
    \E i, j \in 1 .. 9 :
        i < j /\ At(numbers, unit[i]) # None /\ At(numbers, unit[i]) = At(numbers, unit[j])

FirstOffender(numbers) ==
    Least({k \in 1 .. 27 : Repeats(numbers, Units[k])})

\* C6: InvalidBoard names the first unit, in the order blocks, rows, columns,
\* that holds a repeated number: its kind and its index
CX_C6 ==
    exc.kind # "none" =>
        LET k == FirstOffender(exc.board)
        IN  /\ exc.kind = (IF k <= 9 THEN "Block" ELSE IF k <= 18 THEN "Row" ELSE "Column")
            /\ exc.index = (k - 1) % 9

\* C7: a cell's candidate list is None exactly when its number is set
CX_C7 ==
    \A k \in 1 .. Len(stack) :
        \A p \in Cells :
            (At(stack[k].board.blocks, p).possibles = NoList) <=> ~empty(At(stack[k].board.blocks, p))

\* no unit holds k cells sharing a list of k candidates and another empty cell
\* with one of those candidates
Settled(blocks) ==
    \A u \in 1 .. 27 :
        \A i, j \in 1 .. 9 :
            LET ci == At(blocks, Units[u][i])
                cj == At(blocks, Units[u][j])
                sharing == {n \in 1 .. 9 : empty(At(blocks, Units[u][n]))
                                            /\ At(blocks, Units[u][n]).possibles = ci.possibles}
            IN  (empty(ci) /\ empty(cj) /\ Cardinality(sharing) = Len(ci.possibles)
                    /\ cj.possibles # ci.possibles)
                => SeqSet(cj.possibles) \cap SeqSet(ci.possibles) = {}

NoGrowth(before, after) ==
    \A p \in Cells :
        (empty(At(before, p)) /\ empty(At(after, p)))
            => SeqSet(At(after, p).possibles) \subseteq SeqSet(At(before, p).possibles)

\* C8 (as amended): a second call of set_possibles never adds a candidate,
\* and it changes nothing exactly when the first call left the grid settled
Thm_C8 ==
    [][(Running /\ Top.pc = "p_second") =>
          /\ NoGrowth(Top.board.blocks, stack'[1].board.blocks)
          /\ (stack'[1].board.blocks = Top.board.blocks) <=> Settled(Top.board.blocks)]_vars

\* C8 (as claimed): the second call changes no candidate list
CX_C8 ==
    [][(Running /\ Top.pc = "p_second") => stack'[1].board.blocks = Top.board.blocks]_vars

\* the second call ran on a grid with open cells
Wit_C8 ==
    /\ Running /\ Top.pc = "p_end"
    /\ \E p \in EmptyCells(Top.board.blocks) : Len(At(Top.board.blocks, p).possibles) >= 2

\* every frame after the step against the frame it was, or against the frame
\* it was copied from
NoGrowthStep ==
    \A k \in 1 .. Len(stack') :
        NoGrowth(stack[IF k <= Len(stack) THEN k ELSE k - 1].board.blocks, stack'[k].board.blocks)

\* C9 (as amended): only reset_possibles enlarges a candidate list, to the
\* full list; no other step of analyze or of the search adds a candidate to a
\* cell that stays empty
Thm_C9 ==
    [][IF Running /\ Top.pc = "reset"
       THEN \A p \in EmptyCells(stack'[Len(stack)].board.blocks) :
               At(stack'[Len(stack)].board.blocks, p).possibles = POSSIBLE_NUMBERS
       ELSE NoGrowthStep]_vars

\* C9 (as claimed): no step adds a candidate to a cell that stays empty
CX_C9 == [][NoGrowthStep]_vars

\* a later round of analyze has propagated and left a cell open
Wit_C9 ==
    /\ Running /\ Top.pc = "set_obvious" /\ Top.loops >= 1
    /\ \E p \in EmptyCells(Top.board.blocks) : Len(At(Top.board.blocks, p).possibles) >= 2

\* C10: every repetition of the loop of analyze has filled a cell: the
\* repetitions so far and the cells still empty are no more than the cells
\* empty when analyze was called
Thm_C10 ==
    \A k \in 1 .. Len(stack) :
        stack[k].pc # "entry" =>
            stack[k].loops + Cardinality(EmptyCells(stack[k].board.blocks)) <= stack[k].start

\* analyze ended after two or more repetitions
Wit_C10 == \E k \in 1 .. Len(stack) : stack[k].pc = "solved" /\ stack[k].loops >= 2

\* the empty cells of a unit can take distinct numbers from their candidates
RECURSIVE Distinct(_, _, _)
Distinct(cells, k, used) ==
    IF k > 9 THEN TRUE
    ELSE IF ~empty(cells[k]) THEN Distinct(cells, k + 1, used)
    ELSE \E v \in SeqSet(cells[k].possibles) \ used : Distinct(cells, k + 1, used \cup {v})

\* cell i of the unit is one of k empty cells sharing a list of k candidates
Locked(cells, i) ==
    /\ empty(cells[i])
    /\ Cardinality({n \in 1 .. 9 : empty(cells[n]) /\ cells[n].possibles = cells[i].possibles})
          = Len(cells[i].possibles)

\* what the naked-subset loop owes a unit: the cells sharing a list keep it,
\* every other empty cell has none of its numbers
NakedDone(cells, after) ==
    \A i \in 1 .. 9 :
        Locked(cells, i) =>
            /\ after[i] = cells[i]
            /\ \A j \in 1 .. 9 :
                  (empty(cells[j]) /\ cells[j].possibles # cells[i].possibles)
                      => SeqSet(after[j].possibles) \cap SeqSet(cells[i].possibles) = {}

\* the unit the last step worked on, before and after
LastBefore == UnitCells(Top.before, Units[Top.unit - 1])

LastAfter == UnitCells(Top.board.blocks, Units[Top.unit - 1])

Callers ==
    {k \in 1 .. Len(stack') : k < Len(stack) \/ (k = Len(stack) /\ Len(stack') > Len(stack))}

\* C12: no step changes the board of a caller, so next_moves and everything a
\* branch does leave the source grid as it was; a yielded grid is a new
\* object; the boards of the visited set stay as they were added.
Thm_C12 ==
    [][/\ \A k \in Callers : stack'[k].board = stack[k].board
       /\ visited \subseteq visited'
       /\ Len(stack') > Len(stack) =>
             /\ \A k \in 1 .. Len(stack) : stack[k].board.id # stack'[Len(stack')].board.id
             /\ \A v \in visited : v.id # stack'[Len(stack')].board.id]_vars

\* a branch has committed cells on its own grid while its source grid waits
Wit_C12 ==
    /\ Len(stack) >= 2
    /\ Top.pc = "solved" /\ Top.loops >= 1
    /\ Cardinality(EmptyCells(Top.board.blocks))
          < Cardinality(EmptyCells(stack[Len(stack) - 1].board.blocks)) - 1

\* the cells that share a block, a row or a column with cell p
Peers(p) ==
    {q \in Cells :
        /\ q # p
        /\ \/ q[1] = p[1]
           \/ 3 * (q[1] \div 3) + (q[2] \div 3) = 3 * (p[1] \div 3) + (p[2] \div 3)
           \/ 3 * (q[1] % 3) + (q[2] % 3) = 3 * (p[1] % 3) + (p[2] % 3)}

\* the numbers no peer of p holds
Free(numbers, p) == POSSIBLE_SET \ {At(numbers, q) : q \in Peers(p)}

\* no two peers hold the same number: no block, row or column repeats one
Consistent(numbers) == \A k \in 1 .. 27 : ~Repeats(numbers, Units[k])

\* the empty cells can be filled so that no two peers hold the same number
RECURSIVE Fill(_)
Fill(numbers) ==
    LET open == {p \in Cells : At(numbers, p) = None}
    IN  IF open = {} THEN TRUE
        ELSE LET p == CHOOSE x \in open :
                        \A y \in open :
                            Cardinality(Free(numbers, x)) <= Cardinality(Free(numbers, y))
             IN  \E v \in Free(numbers, p) : Fill([numbers EXCEPT ![p[1]][p[2]] = v])

\* a grid of numbers has a valid completion
Completable(numbers) == Consistent(numbers) /\ Fill(numbers)

\* C13: every grid a step adds to the visited set has no valid completion
CX_C13 == [][\A v \in visited' \ visited : ~Completable(Numbers(v.blocks))]_vars

Thm_C15 ==
    /\ \A k \in 1 .. Len(stack) :
          /\ stack[k].pc \in {"reset", "set_possibles", "set_obvious", "solved", "moves"}
                => Consistent(Numbers(stack[k].board.blocks))
          /\ stack[k].pc \in {"solved", "moves"}
                => \A p \in EmptyCells(stack[k].board.blocks) :
                      Len(At(stack[k].board.blocks, p).possibles) # 1
    /\ exc.kind # "none" => ~Consistent(exc.board)
    /\ (result.done /\ ~Consistent(Numbers(orig))) =>
          /\ ~result.solved
          /\ exc.kind # "none" /\ exc.board = Numbers(orig)
          /\ entries = 1

\* the first analyze committed cells and its next verify failed
Wit_C15 ==
    /\ result.done /\ entries = 1
    /\ exc.kind # "none" /\ exc.board # Numbers(orig)
    /\ Consistent(Numbers(orig))

\* the candidates propagation has removed from the empty cells of a grid are
\* numbers no valid completion gives those cells
SoundCandidates(blocks) ==
    \A p \in EmptyCells(blocks) :
        \A v \in POSSIBLE_SET \ SeqSet(At(blocks, p).possibles) :
            ~Completable([Numbers(blocks) EXCEPT ![p[1]][p[2]] = v])

\* C16: a search that ends in failure with the count under MAX_CALLS was given
\* a grid with no valid completion; while the count is under MAX_CALLS no grid
\* with a valid completion is added to the visited set; and, on the grids
\* small enough to try every number, propagation and committing remove no
\* number a valid completion gives a cell.
Thm_C16 ==
    /\ []((result.done /\ ~result.solved /\ result.count < MAX_CALLS)
             => ~Completable(Numbers(orig)))
    /\ [][\A v \in visited' \ visited :
             count < MAX_CALLS => ~Completable(Numbers(v.blocks))]_vars
    /\ []((/\ Running
           /\ Top.pc \in {"set_obvious", "loop_verify", "solved"}
           /\ Cardinality(EmptyCells(Top.board.blocks)) <= MaxOpen)
             => SoundCandidates(Top.board.blocks))

\* a search that met a failed branch and went on to a solution
Wit_C16 == result.done /\ result.solved /\ exc.kind # "none"

====
